---------------------------- MODULE Spec2Model ----------------------------
(***************************************************************************)
(* Model of the computational_graph crate: Cache (cache.rs), Dependencies  *)
(* and Input (node.rs), Unary and Binary (operations.rs) and the factory   *)
(* functions of utils.rs.                                                  *)
(*                                                                         *)
(* Nodes are heap objects named by the order of their allocation.  A node  *)
(* is reference counted (Rc): strong[n] is its strong count, held is the   *)
(* set of nodes the caller owns an Rc of.  f32 values are modelled by      *)
(* integers: every value of the model is an integer of magnitude below     *)
(* 2^24, on which f32 addition and multiplication are exact.  sin is not   *)
(* integer valued and is left out; pow_f32 is taken with exponent 2.       *)
(*                                                                         *)
(* Every API call (create_input, Unary::new, Binary::new, set, compute,    *)
(* invalidate, dropping a handle) is one action, so every state of the     *)
(* model is a state between two API calls.  The recursion of compute and   *)
(* invalidate is computed by recursive operators over a call state st.     *)
(***************************************************************************)
EXTENDS Integers, Sequences, FiniteSets

\* Number of nodes ever allocated in one run.
MaxNodes == 3
\* Input.set is called with values in 0 .. MaxVal.
MaxVal == 2
\* Cap on the ghost counter of op invocations since a node's last invalidation.
MaxCalls == 2

Node == 1..MaxNodes
InputVals == 0..MaxVal
\* utils.rs: add, mul (Binary) and pow_f32 with e = 2 (Unary).
BinaryOps == {"add", "mul"}
UnaryOps == {"pow2"}

VARIABLES
    kind,      \* node -> "Free" (not allocated yet), "Input", "Unary", "Binary", "Dropped"
    x,         \* Unary.x / Binary.x: the upstream node (0 when there is none)
    y,         \* Binary.y (0 when there is none)
    op,        \* Unary.op / Binary.op ("none" when there is none)
    value,     \* Input.value
    cached,    \* Cache.val: <<>> is None, <<v>> is Some(v)
    dep,       \* Dependencies.vec: sequence of Weak pointers (node ids)
    strong,    \* Rc strong count of the node
    held,      \* nodes of which the caller owns an Rc
    calls,     \* ghost: op invocations of the node since its cache was last invalidated
    panicked,  \* a RefCell borrow failed (BorrowMutError): the call did not complete
    last,      \* ghost: what the last API call was, returned and did
    lost,      \* ghost: the live nodes whose cache once held a value that was cleared
    unset      \* ghost: the live Inputs on which set has never been called

vars == <<kind, x, y, op, value, cached, dep, strong, held, calls, panicked, last, lost,
          unset>>

\* Option<f32>
None == <<>>
Some(v) == <<v>>

\* An Input that starts at one.
DefaultValueOne == 0 + 1

\* Default::default() of Cell<f32> (Input::new)
DefaultValue == 0

ZeroCount == [n \in Node |-> 0]

\* The record of an API call: its name, the node it was called on, its
\* argument (set), the value it returned (compute), how often each node's op
\* ran in it, the events of its invalidation cascade (in order) and the nodes
\* whose cache held a value that it cleared.
NoCall == [call |-> "none", node |-> 0, arg |-> 0, ret |-> None,
           ops |-> ZeroCount, log |-> <<>>, cleared |-> {}]

Call(c, n, a, r, st) ==
    [call |-> c, node |-> n, arg |-> a, ret |-> r, ops |-> st.ops, log |-> st.log,
     cleared |-> st.cleared]

----------------------------------------------------------------------------
\* The operations (closures) of utils.rs.
ApplyBinary(o, a, b) == IF o = "add" THEN a + b ELSE a * b

\* pow_f32(x, 2.0)
ApplyUnary(o, a) == a * a

----------------------------------------------------------------------------
\* Cache

\* A cache that starts out holding the default value.
CacheNewFilled == Some(0)

\* Cache::new
CacheNew == None

\* A cache that never finds its value.
CacheHitNever(c) == FALSE

\* Option::get_or_insert_with: Some(v) is returned as it is, f is not called.
CacheHit(c) == c # None

\* A cache that computes the value and does not keep it.
CacheStoreNothing(v) == None

\* Option::get_or_insert_with on None: the slot becomes Some(f()).
CacheStore(v) == Some(v)

\* Cache::get
CacheGet(c) == c

\* A cache whose invalidate flips the slot: an empty slot is filled.
CacheInvalidateToggle(c) == IF c = None THEN Some(0) ELSE None

\* A cache whose invalidate leaves the slot as it is.
CacheInvalidateKeeps(c) == c

\* Cache::invalidate: Option::take leaves None.
CacheInvalidate(c) == None

\* RefCell::borrow_mut on a cell: fails when the cell is already borrowed.
BorrowMutOk(borrowed, n) == n \notin borrowed

----------------------------------------------------------------------------
\* Rc / Weak

\* Weak::upgrade succeeds while the strong count is positive.
Upgrade(s, d) == s[d] > 0

\* A dependents vector that keeps the Rc itself.
AddStrongKeepsRc(s) == s + 1

\* Dependencies::add(n): n is an Rc (the caller's tmp.clone(), +1); the vector
\* keeps Rc::downgrade(&n), a Weak, and n is dropped when add returns (-1).
AddStrong(s) == (s + 1) - 1

\* A dependents vector that keeps one entry per node.
DepAddOnce(d, n) == IF \E i \in 1..Len(d) : d[i] = n THEN d ELSE Append(d, n)

\* Dependencies::add: self.vec.borrow_mut().push(..) appends at the end.
DepAdd(d, n) == Append(d, n)

\* A registration in the wrong direction: the upstream node is entered in the
\* dependents vector of the new node.
AddDependentReversed(d, a, k) == [d EXCEPT ![k] = DepAdd(@, a)]

\* Node::add_dependent called on node a with an Rc of node k: self.dep.add(n).
\* d is the dependents vector of every node.
AddDependent(d, a, k) == [d EXCEPT ![a] = DepAdd(@, k)]

\* A compute that pulls from the node itself.
UpstreamSelf(n) == n

\* The node a Unary / Binary pulls from in compute.
UpstreamX(n) == x[n]

UpstreamY(n) == y[n]

\* Dropping one Rc of node n: the strong count goes down by one, and at zero the
\* node is dropped, which drops its fields x and y (Rc of the upstream nodes).
RECURSIVE Release(_, _)
Release(n, s) ==
    LET s1 == [s EXCEPT ![n] = @ - 1]
    IN  IF s1[n] > 0 THEN s1
        ELSE IF kind[n] = "Unary" THEN Release(x[n], s1)
        ELSE IF kind[n] = "Binary" THEN Release(y[n], Release(x[n], s1))
        ELSE s1

----------------------------------------------------------------------------
\* The call state threaded through one API call.
\*   cached, calls : the variables, as the call changes them
\*   busy  : caches whose RefCell is mutably borrowed (inside get_or_else)
\*   iter  : dependents vectors whose RefCell is borrowed (inside the for loop)
\*   ok    : no borrow has failed
\*   ops   : how often each node's op ran in this call
\*   value : Input.value of every node, as the call changes it
\*   log   : the events of the invalidation cascade of this call, in order:
\*             <<"enter", n>>  invalidate is called on node n
\*             <<"clear", n>>  self.cached.invalidate() of Unary / Binary n
\*             <<"skip", d>>   the Weak of d did not upgrade
\*             <<"exit", n>>   invalidate of node n returns
\*             <<"store", n>>  self.value.set(x) of Input n
\*   seen  : the Input values at each event of log
\*   cleared : the nodes whose cache held a value that this call cleared
\*   pulls : the nodes on which compute was called in this call, in order
CallState ==
    [cached |-> cached, calls |-> calls, busy |-> {}, iter |-> {}, ok |-> TRUE,
     ops |-> ZeroCount, log |-> <<>>, cleared |-> {}, value |-> value, seen |-> <<>>,
     pulls |-> <<>>]

Panic(st) == [st EXCEPT !.ok = FALSE]

\* The call state after event e of node n.
Log(e, n, st) ==
    [st EXCEPT !.log = Append(@, <<e, n>>), !.seen = Append(@, st.value)]

\* Input::compute, Unary::compute, Binary::compute with Cache::get_or_else.
RECURSIVE ComputeRec(_, _)
ComputeRec(n, s) ==
    LET st == [s EXCEPT !.pulls = Append(@, n)] IN
    IF kind[n] = "Input" THEN [val |-> value[n], st |-> st]
    ELSE IF ~BorrowMutOk(st.busy, n) THEN [val |-> 0, st |-> Panic(st)]
    ELSE IF CacheHit(st.cached[n]) THEN [val |-> st.cached[n][1], st |-> st]
    ELSE
        LET s0 == [st EXCEPT !.busy = @ \cup {n}]
            rx == ComputeRec(UpstreamX(n), s0)
            ry == IF kind[n] = "Binary" /\ rx.st.ok
                  THEN ComputeRec(UpstreamY(n), rx.st)
                  ELSE rx
            v  == IF kind[n] = "Binary"
                  THEN ApplyBinary(op[n], rx.val, ry.val)
                  ELSE ApplyUnary(op[n], rx.val)
            s1 == ry.st
        IN  IF ~s1.ok THEN [val |-> 0, st |-> s1]
            ELSE [val |-> v,
                  st  |-> [s1 EXCEPT !.cached[n] = CacheStore(v),
                                     !.busy = @ \ {n},
                                     !.ops[n] = @ + 1,
                                     !.calls[n] = @ + 1]]

\* Input::invalidate, Unary::invalidate, Binary::invalidate and
\* Dependencies::invalidate (DepInvalidate: the for loop from entry i on).
RECURSIVE InvalidateRec(_, _)
RECURSIVE DepInvalidate(_, _, _)
InvalidateRec(n, st) ==
    LET s0 == Log("enter", n, st)
        s1 == IF kind[n] = "Input" THEN s0
              ELSE IF ~BorrowMutOk(s0.busy, n) THEN Panic(s0)
              ELSE Log("clear", n,
                       [s0 EXCEPT !.cached[n] = CacheInvalidate(@), !.calls[n] = 0,
                                  !.cleared = IF s0.cached[n] # None
                                              THEN @ \cup {n} ELSE @])
    IN  IF ~s1.ok THEN s1
        ELSE LET s2 == DepInvalidate(n, 1, [s1 EXCEPT !.iter = @ \cup {n}])
             IN  IF s2.ok THEN Log("exit", n, [s2 EXCEPT !.iter = s1.iter]) ELSE s2

\* A loop over the dependents that runs from the last entry to the first.
RECURSIVE DepInvalidateReversed(_, _, _)
DepInvalidateReversed(n, i, st) ==
    IF ~st.ok \/ i > Len(dep[n]) THEN st
    ELSE LET d == dep[n][Len(dep[n]) + 1 - i]
         IN  DepInvalidateReversed(n, i + 1,
                 IF Upgrade(strong, d) THEN InvalidateRec(d, st)
                 ELSE Log("skip", d, st))

\* A loop over the dependents that ends at the first dropped node.
RECURSIVE DepInvalidateStopsAtDead(_, _, _)
DepInvalidateStopsAtDead(n, i, st) ==
    IF ~st.ok \/ i > Len(dep[n]) THEN st
    ELSE IF Upgrade(strong, dep[n][i])
         THEN DepInvalidateStopsAtDead(n, i + 1, InvalidateRec(dep[n][i], st))
         ELSE Log("skip", dep[n][i], st)

\* An invalidate that notifies no dependent.
DepInvalidateNone(n, i, st) == st

\* A loop over the dependents that ends after the first entry.
DepInvalidateFirst(n, i, st) ==
    IF ~st.ok \/ i > Len(dep[n]) THEN st
    ELSE IF Upgrade(strong, dep[n][i]) THEN InvalidateRec(dep[n][i], st)
         ELSE Log("skip", dep[n][i], st)

DepInvalidate(n, i, st) ==
    IF ~st.ok \/ i > Len(dep[n]) THEN st
    ELSE LET d == dep[n][i]
         IN  DepInvalidate(n, i + 1,
                 IF Upgrade(strong, d) THEN InvalidateRec(d, st)
                 ELSE Log("skip", d, st))

----------------------------------------------------------------------------
Init ==
    /\ kind = [n \in Node |-> "Free"]
    /\ x = ZeroCount
    /\ y = ZeroCount
    /\ op = [n \in Node |-> "none"]
    /\ value = ZeroCount
    /\ cached = [n \in Node |-> None]
    /\ dep = [n \in Node |-> <<>>]
    /\ strong = ZeroCount
    /\ held = {}
    /\ calls = ZeroCount
    /\ panicked = FALSE
    /\ last = NoCall
    /\ lost = {}
    /\ unset = {}

Allocated == {n \in Node : kind[n] # "Free"}

\* The next node to allocate.
Fresh == Cardinality(Allocated) + 1

\* utils::create_input -> Rc::new(Input::new(name))
CreateInput ==
    /\ ~panicked
    /\ Fresh \in Node
    /\ LET k == Fresh IN
        /\ kind' = [kind EXCEPT ![k] = "Input"]
        /\ value' = [value EXCEPT ![k] = DefaultValue]
        /\ dep' = [dep EXCEPT ![k] = <<>>]
        /\ strong' = [strong EXCEPT ![k] = 1]
        /\ held' = held \cup {k}
        /\ last' = Call("create_input", k, 0, None, CallState)
        /\ unset' = unset \cup {k}
    /\ UNCHANGED <<x, y, op, cached, calls, panicked, lost>>

\* Unary::new(x, op) with x = a clone of the caller's Rc of node a.
\*   Rc::new(Self { x: x.clone(), .. }) : strong[a] + 1, strong[k] = 1
\*   x.add_dependent(tmp.clone())       : dep[a] gets a Weak of k
\*   return                             : the parameter x is dropped, which
\*                                        undoes the caller's clone
UnaryNew(a, o) ==
    /\ ~panicked
    /\ Fresh \in Node
    /\ a \in held
    /\ LET k == Fresh IN
        /\ kind' = [kind EXCEPT ![k] = "Unary"]
        /\ x' = [x EXCEPT ![k] = a]
        /\ op' = [op EXCEPT ![k] = o]
        /\ cached' = [cached EXCEPT ![k] = CacheNew]
        /\ dep' = AddDependent([dep EXCEPT ![k] = <<>>], a, k)
        /\ strong' = [strong EXCEPT ![a] = @ + 1, ![k] = AddStrong(1)]
        /\ held' = held \cup {k}
        /\ last' = Call("unary", k, 0, None, CallState)
        /\ panicked' = ~BorrowMutOk(CallState.iter, a)
    /\ UNCHANGED <<y, value, calls, lost, unset>>

\* Binary::new(x, y, op) with x, y = clones of the caller's Rc of nodes a, b
\* (a = b when the same node is given twice).
BinaryNew(a, b, o) ==
    /\ ~panicked
    /\ Fresh \in Node
    /\ a \in held
    /\ b \in held
    /\ LET k  == Fresh
           d1 == AddDependent([dep EXCEPT ![k] = <<>>], a, k)
           s1 == [strong EXCEPT ![a] = @ + 1]
       IN
        /\ kind' = [kind EXCEPT ![k] = "Binary"]
        /\ x' = [x EXCEPT ![k] = a]
        /\ y' = [y EXCEPT ![k] = b]
        /\ op' = [op EXCEPT ![k] = o]
        /\ cached' = [cached EXCEPT ![k] = CacheNew]
        /\ dep' = AddDependent(d1, b, k)
        /\ strong' = [s1 EXCEPT ![b] = @ + 1, ![k] = AddStrong(AddStrong(1))]
        /\ held' = held \cup {k}
        /\ last' = Call("binary", k, 0, None, CallState)
        /\ panicked' = ~(BorrowMutOk(CallState.iter, a) /\ BorrowMutOk(CallState.iter, b))
    /\ UNCHANGED <<value, calls, lost, unset>>

\* A set that stores the value without invalidating.
InputSetOnlyStores(n, v) ==
    [st |-> CallState, value |-> [value EXCEPT ![n] = v]]

\* A set that stores the value first and invalidates afterwards.
InputSetStoresFirst(n, v) ==
    LET s1 == Log("store", n, [CallState EXCEPT !.value[n] = v])
        s2 == InvalidateRec(n, s1)
    IN  [st |-> s2, value |-> s2.value]

\* Input::set: self.invalidate(); self.value.set(x)
InputSet(n, v) ==
    LET s1 == InvalidateRec(n, CallState)
        s2 == IF s1.ok THEN Log("store", n, [s1 EXCEPT !.value[n] = v]) ELSE s1
    IN  [st |-> s2, value |-> s2.value]

Set(n, v) ==
    /\ ~panicked
    /\ n \in held
    /\ kind[n] = "Input"
    /\ LET r == InputSet(n, v) IN
        /\ value' = r.value
        /\ cached' = r.st.cached
        /\ calls' = r.st.calls
        /\ panicked' = ~r.st.ok
        /\ last' = Call("set", n, v, None, r.st)
        /\ lost' = lost \cup r.st.cleared
        /\ unset' = unset \ {n}
    /\ UNCHANGED <<kind, x, y, op, dep, strong, held>>

\* Node::compute on a handle of the caller.
Compute(n) ==
    /\ ~panicked
    /\ n \in held
    /\ \A m \in Node : calls[m] < MaxCalls
    /\ LET r == ComputeRec(n, CallState) IN
        /\ cached' = r.st.cached
        /\ calls' = r.st.calls
        /\ panicked' = ~r.st.ok
        /\ last' = Call("compute", n, 0, IF r.st.ok THEN Some(r.val) ELSE None, r.st)
    /\ UNCHANGED <<kind, x, y, op, value, dep, strong, held, lost, unset>>

\* Node::invalidate on a handle of the caller.
Invalidate(n) ==
    /\ ~panicked
    /\ n \in held
    /\ LET st == InvalidateRec(n, CallState) IN
        /\ cached' = st.cached
        /\ calls' = st.calls
        /\ panicked' = ~st.ok
        /\ last' = Call("invalidate", n, 0, None, st)
        /\ lost' = lost \cup st.cleared
    /\ UNCHANGED <<kind, x, y, op, value, dep, strong, held, unset>>

\* The caller drops its Rc of node n.  Every node whose strong count reaches
\* zero is dropped: its fields no longer exist.
DropHandle(n) ==
    /\ ~panicked
    /\ n \in held
    /\ LET s1   == Release(n, strong)
           dead == {m \in Node : strong[m] > 0 /\ s1[m] = 0}
           Clear(f, z) == [m \in Node |-> IF m \in dead THEN z ELSE f[m]]
       IN
        /\ strong' = s1
        /\ held' = held \ {n}
        /\ kind' = Clear(kind, "Dropped")
        /\ x' = Clear(x, 0)
        /\ y' = Clear(y, 0)
        /\ op' = Clear(op, "none")
        /\ value' = Clear(value, 0)
        /\ cached' = Clear(cached, None)
        /\ dep' = Clear(dep, <<>>)
        /\ calls' = Clear(calls, 0)
        /\ last' = Call("drop", n, 0, None, CallState)
        /\ lost' = lost \ dead
        /\ unset' = unset \ dead
    /\ UNCHANGED panicked

Next ==
    \/ CreateInput
    \/ \E a \in Node, o \in UnaryOps : UnaryNew(a, o)
    \/ \E a, b \in Node, o \in BinaryOps : BinaryNew(a, b, o)
    \/ \E n \in Node, v \in InputVals : Set(n, v)
    \/ \E n \in Node : Compute(n)
    \/ \E n \in Node : Invalidate(n)
    \/ \E n \in Node : DropHandle(n)

Spec == Init /\ [][Next]_vars

----------------------------------------------------------------------------
\* Vocabulary of the properties.

Interior(n) == kind[n] \in {"Unary", "Binary"}

Live(n) == strong[n] > 0

\* The nodes node n reads (its upstream nodes).
Reads(n) ==
    IF kind[n] = "Unary" THEN {x[n]}
    ELSE IF kind[n] = "Binary" THEN {x[n], y[n]}
    ELSE {}

\* Node n and everything it transitively reads.
RECURSIVE Cone(_)
Cone(n) == {n} \cup UNION {Cone(m) : m \in Reads(n)}

\* m is transitively downstream of n.
Downstream(m, n) == m # n /\ n \in Cone(m)

\* The expression of node n evaluated from scratch on the Input values val.
RECURSIVE EvalIn(_, _)
EvalIn(n, val) ==
    IF kind[n] = "Unary" THEN
        IF op[n] = "pow2" THEN EvalIn(x[n], val) * EvalIn(x[n], val) ELSE 0
    ELSE IF kind[n] = "Binary" THEN
        IF op[n] = "add" THEN EvalIn(x[n], val) + EvalIn(y[n], val)
        ELSE IF op[n] = "mul" THEN EvalIn(x[n], val) * EvalIn(y[n], val)
        ELSE 0
    ELSE val[n]

Eval(n) == EvalIn(n, value)

\* The last API call was call c on node n.
Did(c, n) == last.call = c /\ last.node = n

----------------------------------------------------------------------------
\* C1: compute() on any node returns the value of the node's expression
\* evaluated from scratch on the current Input values, whatever sets, computes
\* and invalidates came before: the value the last compute returned is that
\* value, and in every state a compute on any handle would return it.
C1_ComputeIsEval ==
    /\ last.call = "compute" => last.ret = Some(Eval(last.node))
    /\ \A n \in held : ComputeRec(n, CallState).val = Eval(n)

\* A compute on an interior node whose cache had held a value that was cleared:
\* the op ran again, on Input values that are no longer the default.
C1_Witness ==
    /\ last.call = "compute"
    /\ Interior(last.node)
    /\ last.node \in lost
    /\ last.ops[last.node] = 1
    /\ last.ret # Some(EvalIn(last.node, ZeroCount))

\* C2: right after Input.set(v) the Input holds v and the cache of every live
\* Unary/Binary node transitively downstream of the Input is Empty.
C2_SetClearsDownstream ==
    last.call = "set" =>
        /\ value[last.node] = last.arg
        /\ \A m \in Node :
            Live(m) /\ Interior(m) /\ Downstream(m, last.node) => cached[m] = None

\* A set that changed the value and cleared the filled cache of a node that
\* reads the Input only through another node.
C2_Witness ==
    /\ last.call = "set"
    /\ last.arg # 0
    /\ \E m \in last.cleared :
        /\ last.node \notin Reads(m)
        /\ Downstream(m, last.node)

\* C3: between two invalidations of a node, computes invoke its op at most
\* once: a compute on a node whose cache is Valid returns the stored value and
\* invokes no op, a compute on a node whose cache is Empty invokes the node's
\* op exactly once, stores the result and returns it.
C3_OpAtMostOncePerInvalidation ==
    /\ [](\A n \in Node : calls[n] <= 1)
    /\ [][\A n \in Node : Interior(n) /\ Compute(n) =>
            IF cached[n] # None
            THEN /\ last'.ops = ZeroCount
                 /\ last'.ret = cached[n]
                 /\ cached' = cached
            ELSE /\ last'.ops[n] = 1
                 /\ last'.ret # None
                 /\ cached'[n] = last'.ret
                 /\ calls'[n] = 1]_vars

\* A second compute in a row on a node: a hit on the value the first stored.
C3_Witness ==
    /\ last.call = "compute"
    /\ Interior(last.node)
    /\ last.ops = ZeroCount
    /\ calls[last.node] = 1
    /\ last.ret = cached[last.node]

\* C4: invalidate() on a Unary/Binary node leaves the node's cache Empty,
\* whether it was Empty or Valid, and the compute() on that node that follows
\* invokes the node's op exactly once and leaves the cache Valid.
C4_InvalidateThenRecompute ==
    /\ [](last.call = "invalidate" /\ Interior(last.node)
            => cached[last.node] = None /\ calls[last.node] = 0)
    /\ [][\A n \in Node : Interior(n) /\ Did("invalidate", n) /\ Compute(n) =>
            /\ last'.ops[n] = 1
            /\ cached'[n] # None
            /\ cached'[n] = last'.ret]_vars

\* An invalidate on an interior node that cleared the value its cache held.
C4_Witness ==
    /\ last.call = "invalidate"
    /\ Interior(last.node)
    /\ last.node \in last.cleared
    /\ cached[last.node] = None

\* C5: evaluation is lazy.  A node just constructed has an Empty cache and its
\* op has not run; no call but compute runs an op; and an op that runs, runs
\* in a compute call, on a node whose cache was Empty.
C5_Lazy ==
    /\ [](/\ last.call \in {"unary", "binary"}
                => cached[last.node] = None /\ calls[last.node] = 0
          /\ last.call # "compute" => last.ops = ZeroCount)
    /\ [][\A m \in Node : last'.ops[m] > 0 \/ calls'[m] > calls[m] =>
            /\ last'.call = "compute"
            /\ Compute(last'.node)
            /\ Interior(m)
            /\ cached[m] = None]_vars

\* A Binary node just built on a node whose value is computed and cached: it
\* is Empty, and no op ran.
C5_Witness ==
    /\ last.call = "binary"
    /\ cached[last.node] = None
    /\ Interior(x[last.node])
    /\ cached[x[last.node]] # None
    /\ last.ops = ZeroCount

\* C6: one compute() returns the value of the node's expression and invokes
\* the op of every Unary/Binary node it reaches with an Empty cache exactly
\* once, also when that node is reached twice (a Binary node given the same
\* node as x and y returns op(v, v)); no other op runs.
C6_DiamondComputesOnce ==
    [][\A n \in Node : Compute(n) =>
        /\ last'.ret = Some(Eval(n))
        /\ \A m \in Node :
            last'.ops[m] = IF Interior(m) /\ m \in Cone(n) /\ cached[m] = None
                           THEN 1 ELSE 0
        /\ kind[n] = "Binary" /\ x[n] = y[n] =>
            last'.ret = Some(IF op[n] = "add" THEN Eval(x[n]) + Eval(x[n])
                                             ELSE Eval(x[n]) * Eval(x[n]))]_vars

\* A compute on a Binary node whose x and y are the same Unary/Binary node g,
\* after the cache of g had been cleared: the op of g ran once.
C6_Witness ==
    /\ last.call = "compute"
    /\ kind[last.node] = "Binary"
    /\ x[last.node] = y[last.node]
    /\ Interior(x[last.node])
    /\ x[last.node] \in lost
    /\ last.ops[x[last.node]] = 1
    /\ last.ops[last.node] = 1
    /\ last.ret # Some(0)

\* The owning references to node n: the caller's handle, and one for each
\* field x or y of a live node that points to n.
Owners(n) ==
    (IF n \in held THEN 1 ELSE 0)
    + Cardinality({m \in Node : Live(m) /\ Interior(m) /\ x[m] = n})
    + Cardinality({m \in Node : Live(m) /\ kind[m] = "Binary" /\ y[m] = n})

\* C7: a node is alive exactly while it has an owning reference, held by the
\* caller or by a live node that reads it: its strong count is the number of
\* those references, so an entry in a dependents list keeps no node alive; a
\* node without owner is dropped; and the nodes a live node reads are alive.
C7_Ownership ==
    \A n \in Node :
        /\ strong[n] = Owners(n)
        /\ kind[n] = "Dropped" <=> (n \in Allocated /\ ~Live(n))
        /\ Live(n) => \A u \in Reads(n) : Live(u)

\* A dropped node is still listed as a dependent of a live node, while
\* another node, of which the caller holds no handle, is kept alive by the
\* node that reads it.
C7_Witness ==
    /\ \E n \in Node : Live(n) /\ \E i \in 1..Len(dep[n]) : kind[dep[n][i]] = "Dropped"
    /\ \E n \in Node : Live(n) /\ n \notin held

\* C8: every compute, invalidate and set call completes: no call borrows a
\* cache slot that is inside get_or_else, none appends to a dependents list
\* that is being iterated.
C8_NoBorrowFailure ==
    /\ ~panicked
    /\ last.call = "compute" => last.ret # None

\* A compute that ran the ops of a Binary node and of the interior node that
\* is both its x and its y: get_or_else of the first slot was entered while
\* the second was filled, and the second was then read again.
C8_Witness ==
    /\ ~panicked
    /\ last.call = "compute"
    /\ kind[last.node] = "Binary"
    /\ x[last.node] = y[last.node]
    /\ Interior(x[last.node])
    /\ last.ops[last.node] = 1
    /\ last.ops[x[last.node]] = 1

\* C9: an Input on which set has never been called has value 0: compute on
\* it returns 0, and every compute evaluates the inputs never set as 0.
C9_UnsetInputIsZero ==
    /\ \A n \in unset : value[n] = 0 /\ ComputeRec(n, CallState).val = 0
    /\ last.call = "compute" =>
        last.ret = Some(EvalIn(last.node,
                               [m \in Node |-> IF m \in unset THEN 0 ELSE value[m]]))

\* A compute on a Binary node that reads an Input never set and an Input set
\* to a value that is not 0.
C9_Witness ==
    /\ last.call = "compute"
    /\ kind[last.node] = "Binary"
    /\ x[last.node] \in unset
    /\ kind[y[last.node]] = "Input"
    /\ value[y[last.node]] # 0
    /\ last.ops[last.node] = 1

\* C10: cache coherence: whenever the cache of a live Unary/Binary node is
\* Valid(v), v is what the node's op gives on the current values of the
\* expressions of its upstream nodes.
C10_CacheCoherence ==
    \A n \in Node :
        Live(n) /\ Interior(n) /\ cached[n] # None =>
            cached[n] = Some(IF kind[n] = "Unary" THEN Eval(x[n]) * Eval(x[n])
                             ELSE IF op[n] = "add" THEN Eval(x[n]) + Eval(y[n])
                             ELSE Eval(x[n]) * Eval(y[n]))

\* A Valid cache that was filled again after it had been cleared, on a node
\* that reads a Unary/Binary node, with a value other than that of the
\* default inputs.
C10_Witness ==
    \E n \in Node :
        /\ Live(n)
        /\ Interior(n)
        /\ n \in lost
        /\ cached[n] # None
        /\ cached[n] # Some(EvalIn(n, ZeroCount))
        /\ \E u \in Reads(n) : Interior(u)

----------------------------------------------------------------------------
\* The positions of log at which event e of node n is recorded.
At(log, e, n) == {i \in 1..Len(log) : log[i] = <<e, n>>}

\* C11: within one Input.set(v) on Input n the whole invalidation cascade comes
\* before the store: the events of the call start with the invalidate of n and
\* end with its return followed by the store, every event before the store
\* sees all Input values as they were before the call, every invalidate that
\* was entered has returned before the store, every live downstream node was
\* cleared before it, and the store writes v to n and nothing else.
C11_InvalidateBeforeStore ==
    [][\A n \in Node, v \in InputVals : Set(n, v) =>
        LET r == InputSet(n, v)
            k == Len(r.st.log)
        IN  /\ r.st.ok
            /\ k >= 3
            /\ r.st.log[1] = <<"enter", n>>
            /\ r.st.log[k - 1] = <<"exit", n>>
            /\ r.st.log[k] = <<"store", n>>
            /\ \A i \in 1..(k - 1) : r.st.log[i][1] # "store" /\ r.st.seen[i] = value
            /\ \A m \in Node :
                  /\ Cardinality(At(r.st.log, "enter", m))
                       = Cardinality(At(r.st.log, "exit", m))
                  /\ Live(m) /\ Interior(m) /\ Downstream(m, n)
                       => At(r.st.log, "clear", m) # {}
            /\ r.st.seen[k] = [value EXCEPT ![n] = v]
            /\ value' = [value EXCEPT ![n] = v]
            /\ last'.log = r.st.log]_vars

\* A set of a non-default value whose cascade cleared two nodes' caches before
\* the store.
C11_Witness ==
    /\ last.call = "set"
    /\ last.arg # DefaultValue
    /\ Cardinality(last.cleared) >= 2
    /\ last.log[Len(last.log)] = <<"store", last.node>>
    /\ \A m \in last.cleared : \E i \in 1..(Len(last.log) - 1) : last.log[i] = <<"clear", m>>
    /\ value[last.node] = last.arg

----------------------------------------------------------------------------
\* The depth-first cascade of an invalidate of node n, read off the dependents
\* vectors: n is entered, clears its own cache (Unary / Binary), then each entry
\* of its dependents vector, in the order of the vector, contributes the whole
\* cascade of its node (or a skip when the node is dropped), then n returns.
RECURSIVE DepthFirst(_)
RECURSIVE DepthFirstFrom(_, _)
DepthFirst(n) ==
    <<(<<"enter", n>>)>> \o (IF Interior(n) THEN <<(<<"clear", n>>)>> ELSE <<>>)
        \o DepthFirstFrom(n, 1) \o <<(<<"exit", n>>)>>

DepthFirstFrom(n, i) ==
    IF i > Len(dep[n]) THEN <<>>
    ELSE (IF Live(dep[n][i]) THEN DepthFirst(dep[n][i]) ELSE <<(<<"skip", dep[n][i]>>)>>)
             \o DepthFirstFrom(n, i + 1)

\* C12: the events of every invalidate call are the depth-first cascade of its
\* node (own cache first, dependents in the order they were added, one
\* dependent's sub-cascade complete before the next), and the events of every
\* set are that cascade followed by the store.
C12_DepthFirstOrder ==
    /\ last.call = "invalidate" => last.log = DepthFirst(last.node)
    /\ last.call = "set" => last.log = DepthFirst(last.node) \o <<(<<"store", last.node>>)>>

\* A cascade from a node with two different live dependents, the first of
\* which has a live dependent of its own.
C12_Witness ==
    /\ last.call \in {"invalidate", "set"}
    /\ Len(dep[last.node]) >= 2
    /\ LET d1 == dep[last.node][1]
           d2 == dep[last.node][2]
       IN  /\ d1 # d2
           /\ Live(d1) /\ Live(d2)
           /\ \E i \in 1..Len(dep[d1]) : Live(dep[d1][i])
           /\ \E j \in At(last.log, "enter", d2) :
                 \A i \in At(last.log, "exit", d1) : i < j

----------------------------------------------------------------------------
\* C13: Unary::new(a, o) and Binary::new(a, b, o) allocate node k with an empty
\* dependents vector and append one entry for k at the end of the dependents
\* vector of each argument (two entries at the end of the same vector when
\* a = b); no other dependents vector, no cache of another node and no Input
\* value changes; k reads exactly the given nodes and owns one Rc of each, and
\* the entries own nothing of k (its strong count is the caller's one Rc).
C13_ConstructorRegisters ==
    [][/\ \A a \in Node, o \in UnaryOps : UnaryNew(a, o) =>
            LET k == Fresh IN
            /\ dep'[a] = dep[a] \o <<k>>
            /\ dep'[k] = <<>>
            /\ \A m \in Node \ {a, k} : dep'[m] = dep[m]
            /\ \A m \in Node \ {k} : cached'[m] = cached[m]
            /\ value' = value
            /\ kind'[k] = "Unary" /\ x'[k] = a
            /\ strong'[k] = 1
            /\ \A m \in Node \ {k} : strong'[m] = strong[m] + (IF m = a THEN 1 ELSE 0)
       /\ \A a, b \in Node, o \in BinaryOps : BinaryNew(a, b, o) =>
            LET k == Fresh IN
            /\ dep'[a] = dep[a] \o (IF a = b THEN <<k, k>> ELSE <<k>>)
            /\ dep'[b] = dep[b] \o (IF a = b THEN <<k, k>> ELSE <<k>>)
            /\ dep'[k] = <<>>
            /\ \A m \in Node \ {a, b, k} : dep'[m] = dep[m]
            /\ \A m \in Node \ {k} : cached'[m] = cached[m]
            /\ value' = value
            /\ kind'[k] = "Binary" /\ x'[k] = a /\ y'[k] = b
            /\ strong'[k] = 1
            /\ \A m \in Node \ {k} :
                  strong'[m] = strong[m] + (IF m = a THEN 1 ELSE 0) + (IF m = b THEN 1 ELSE 0)
      ]_vars

\* A Binary was just built on the same node twice, that node already had a
\* dependent, and a Valid cache was there to be left alone.
C13_Witness ==
    /\ last.call = "binary"
    /\ x[last.node] = y[last.node]
    /\ Len(dep[x[last.node]]) = 3
    /\ dep[x[last.node]][2] = last.node /\ dep[x[last.node]][3] = last.node
    /\ \E m \in Node : cached[m] # None

----------------------------------------------------------------------------
\* s is an initial segment of t.
Prefix(s, t) == Len(s) <= Len(t) /\ \A i \in 1..Len(s) : t[i] = s[i]

\* C14: the dependents vector of a node that stays alive only ever grows at
\* its end (no entry is removed, dropped nodes' entries included), and an
\* invalidate or set changes no dependents vector, does not fail, enters no
\* dropped node, records a skip for every dropped entry of every node it
\* enters and still enters (and leaves Empty) every live entry of that node,
\* those after a dropped entry included.
C14_DeadEntriesSkipped ==
    [][/\ \A n \in Node : strong[n] > 0 /\ strong'[n] > 0 => Prefix(dep[n], dep'[n])
       /\ \A n \in Node : (Invalidate(n) \/ \E v \in InputVals : Set(n, v)) =>
            /\ dep' = dep
            /\ ~panicked'
            /\ \A m \in Node :
                  /\ ~Live(m) => At(last'.log, "enter", m) = {}
                  /\ At(last'.log, "enter", m) # {} =>
                        \A i \in 1..Len(dep[m]) :
                            IF Live(dep[m][i])
                            THEN /\ At(last'.log, "enter", dep[m][i]) # {}
                                 /\ cached'[dep[m][i]] = None
                            ELSE At(last'.log, "skip", dep[m][i]) # {}
      ]_vars

\* A cascade went through a vector that holds the entry of a dropped node
\* before the entry of a live node, and cleared the live node's Valid cache.
C14_Witness ==
    /\ last.call \in {"invalidate", "set"}
    /\ ~panicked
    /\ \E i, j \in 1..Len(dep[last.node]) :
          /\ i < j
          /\ ~Live(dep[last.node][i])
          /\ At(last.log, "skip", dep[last.node][i]) # {}
          /\ Live(dep[last.node][j])
          /\ dep[last.node][j] \in last.cleared

----------------------------------------------------------------------------
RECURSIVE Pow2(_)
Pow2(k) == IF k <= 0 THEN 1 ELSE 2 * Pow2(k - 1)

\* C15: the graph is acyclic by construction: a live Unary / Binary reads only
\* live nodes allocated before it, and every entry of a live node's dependents
\* vector is a node allocated after it that, if alive, reads it.  Hence every
\* call is finite: from every state an invalidate and a compute of any handle
\* complete, an invalidate after at most 2^(m-1) calls on node m, and the last
\* call has run each op at most once.
C15_AcyclicAndFinite ==
    /\ \A n \in Node : Live(n) =>
          /\ \A u \in Reads(n) : u \in Node /\ u < n /\ Live(u)
          /\ \A i \in 1..Len(dep[n]) :
                /\ dep[n][i] \in Node
                /\ dep[n][i] > n
                /\ Live(dep[n][i]) => n \in Reads(dep[n][i])
    /\ \A n \in Node : n \notin UNION {Cone(u) : u \in Reads(n)}
    /\ ~panicked => \A n \in held :
          LET st == InvalidateRec(n, CallState) IN
          /\ st.ok
          /\ \A m \in Node : Cardinality(At(st.log, "enter", m)) <= Pow2(m - 1)
          /\ ComputeRec(n, CallState).st.ok
    /\ \A m \in Node :
          /\ Cardinality(At(last.log, "enter", m)) <= Pow2(m - 1)
          /\ last.ops[m] <= 1

\* A diamond: a live Binary reads an Input and a Unary of that Input, a set of
\* the Input has reached the Binary along both paths, and so has returned.
C15_Witness ==
    /\ last.call = "set"
    /\ ~panicked
    /\ \E b \in Node :
          /\ kind[b] = "Binary"
          /\ kind[x[b]] # kind[y[b]]
          /\ last.node \in {x[b], y[b]}
          /\ Downstream(x[b], last.node) \/ Downstream(y[b], last.node)
          /\ Cardinality(At(last.log, "enter", b)) = 2

----------------------------------------------------------------------------
\* C16: invalidate is idempotent.  From every state and for every handle n,
\* one invalidate of n leaves Empty exactly the caches of the nodes it reached,
\* however often it reached them, and every other cache and every Input value
\* as it was; a second invalidate of n right after it changes no cache and no
\* Input value; neither fails.  The dependents vectors are not part of the
\* call state: no invalidate step changes them.
C16_InvalidateIdempotent ==
    /\ ~panicked => \A n \in held :
          LET s1 == InvalidateRec(n, CallState)
              s2 == InvalidateRec(n, [CallState EXCEPT !.cached = s1.cached,
                                                       !.calls = s1.calls,
                                                       !.value = s1.value])
          IN  /\ s1.ok /\ s2.ok
              /\ s1.cached = [m \in Node |->
                                IF At(s1.log, "enter", m) # {} THEN None ELSE cached[m]]
              /\ s1.value = value
              /\ s2.cached = s1.cached
              /\ s2.value = s1.value
              /\ s2.log = s1.log
    /\ last.call = "invalidate" =>
          \A m \in Node : At(last.log, "enter", m) # {} => cached[m] = None

\* An invalidate reached a node along two paths and cleared its Valid cache.
C16_Witness ==
    /\ last.call = "invalidate"
    /\ ~panicked
    /\ \E m \in last.cleared :
          /\ Cardinality(At(last.log, "enter", m)) >= 2
          /\ cached[m] = None

----------------------------------------------------------------------------
\* The number of chains of dependents-vector entries of live nodes that lead
\* from node n to node m (ChainsFrom: through the entries of n from entry i on).
RECURSIVE Chains(_, _)
RECURSIVE ChainsFrom(_, _, _)
Chains(n, m) == IF n = m THEN 1 ELSE ChainsFrom(n, 1, m)

ChainsFrom(n, i, m) ==
    IF i > Len(dep[n]) THEN 0
    ELSE (IF Live(dep[n][i]) THEN Chains(dep[n][i], m) ELSE 0) + ChainsFrom(n, i + 1, m)

\* The number of invalidate calls node m received in the last call.
Invalidations(m) == Cardinality(At(last.log, "enter", m))

\* C17: in one invalidate or set on node r, r is invalidated once, every other
\* live node once per chain of dependents entries leading to it from r, which
\* for a Unary is as often as its upstream node and for a Binary as often as
\* its x plus as often as its y (twice its upstream when x and y are the same
\* node); a dropped node is never invalidated.  A compute runs the op of each
\* node at most once all the same.
C17_InvalidateCallCount ==
    /\ last.call \in {"invalidate", "set"} =>
          /\ Invalidations(last.node) = 1
          /\ \A m \in Node :
                /\ Live(m) => Invalidations(m) = Chains(last.node, m)
                /\ ~Live(m) => Invalidations(m) = 0
                /\ Live(m) /\ m # last.node =>
                      Invalidations(m) =
                          IF kind[m] = "Unary" THEN Invalidations(x[m])
                          ELSE IF kind[m] = "Binary"
                               THEN Invalidations(x[m]) + Invalidations(y[m])
                               ELSE 0
                /\ kind[m] = "Binary" /\ x[m] = y[m] /\ m # last.node =>
                      Invalidations(m) = 2 * Invalidations(x[m])
    /\ last.call = "compute" => \A m \in Node : last.ops[m] <= 1 /\ calls[m] <= 1

\* A set of an Input under a chain of two self-paired Binary nodes: the last
\* one was invalidated 2^2 times.
C17_Witness ==
    /\ last.call = "set"
    /\ \E b1, b2 \in Node :
          /\ kind[b1] = "Binary" /\ x[b1] = last.node /\ y[b1] = last.node
          /\ kind[b2] = "Binary" /\ x[b2] = b1 /\ y[b2] = b1
          /\ Invalidations(b1) = 2
          /\ Invalidations(b2) = Pow2(2)
          /\ b2 \in last.cleared

----------------------------------------------------------------------------
\* C18: Cache::get returns the slot as it is.  A compute of a Unary / Binary
\* whose cache is Valid returns what Cache::get returns and changes nothing:
\* no cache, no Input value, no dependents vector, no strong count; it runs no
\* op, invalidates nothing and calls compute on no other node.  No compute at
\* all changes an Input value, a dependents vector or the shape of the graph.
C18_ComputeFrame ==
    [][\A n \in Node : Compute(n) =>
        /\ value' = value
        /\ dep' = dep
        /\ <<kind, x, y, op, strong, held>>' = <<kind, x, y, op, strong, held>>
        /\ last'.log = <<>>
        /\ Interior(n) /\ cached[n] # None =>
              /\ cached' = cached
              /\ ~panicked'
              /\ last'.ret = CacheGet(cached[n])
              /\ last'.ret = cached'[n]
              /\ last'.ops = ZeroCount
              /\ ComputeRec(n, CallState).st.pulls = <<n>>
              /\ ComputeRec(n, CallState).st.cached = cached]_vars

\* A compute just hit the Valid cache of a node that reads another Unary /
\* Binary node.
C18_Witness ==
    /\ last.call = "compute"
    /\ Interior(last.node)
    /\ Interior(x[last.node])
    /\ last.ops = ZeroCount
    /\ last.ret # None
    /\ last.ret = cached[last.node]

----------------------------------------------------------------------------
\* C19: a set on Input n, and an invalidate of node n, change the cache of no
\* node other than n and the nodes transitively downstream of n (so the cache
\* of every upstream node and of every unrelated node keeps its state and its
\* value) and the value of no Input other than n (an invalidate: of no Input).
C19_InvalidateFrame ==
    [][\A n \in Node :
        /\ (Invalidate(n) \/ \E v \in InputVals : Set(n, v)) =>
              /\ \A m \in Node \ {n} : ~Downstream(m, n) => cached'[m] = cached[m]
              /\ \A m \in Cone(n) \ {n} : cached'[m] = cached[m]
              /\ \A m \in Node \ {n} : value'[m] = value[m]
              /\ last'.cleared \subseteq {m \in Node : m = n \/ Downstream(m, n)}
        /\ Invalidate(n) => value' = value]_vars

\* A call cleared a Valid cache and left alone a Valid cache that is not
\* downstream of its node.
C19_Witness ==
    /\ last.call \in {"invalidate", "set"}
    /\ last.cleared # {}
    /\ \E m \in Node \ {last.node} :
          /\ Live(m)
          /\ ~Downstream(m, last.node)
          /\ cached[m] # None

----------------------------------------------------------------------------
\* C20: between API calls validity is closed towards the Inputs: every Unary /
\* Binary node that a live node with a Valid cache transitively reads has a
\* Valid cache; put the other way, every live node transitively downstream of
\* a node with an Empty cache has an Empty cache.
C20_ValidityUpwardClosed ==
    /\ \A n \in Node : Live(n) /\ Interior(n) /\ cached[n] # None =>
          \A m \in Cone(n) : Interior(m) => cached[m] # None
    /\ \A m \in Node : Live(m) /\ Interior(m) /\ cached[m] = None =>
          \A n \in Node : Live(n) /\ Downstream(n, m) => cached[n] = None

\* An invalidate of a Unary / Binary node emptied its Valid cache and the
\* Valid cache of a live node downstream of it.
C20_Witness ==
    /\ last.call = "invalidate"
    /\ Interior(last.node)
    /\ cached[last.node] = None
    /\ last.node \in last.cleared
    /\ \E n \in last.cleared :
          /\ Live(n)
          /\ Downstream(n, last.node)
          /\ cached[n] = None

====
